---------------------------- MODULE Spec2Model ----------------------------
(***************************************************************************)
(* Model of the appliance registry and the hourly distribution of          *)
(* src/models/equipment.py (Equipment, EquipmentFactory) and of the sizing *)
(* functions of src/utils/calculations.py (battery_needed, panel_needed,   *)
(* calculate_regulator, calculate_cable_section, calculate_roi); of the    *)
(* registry called from two threads; and of saving and loading a           *)
(* configuration (src/utils/storage.py, the buttons of                     *)
(* src/pages/1_Equipments.py).                                             *)
(*                                                                         *)
(* Python floats are IEEE-754 doubles.  A double is held here as an exact  *)
(* fixed-point number with 54 fractional bits in three 18-bit limbs,       *)
(*     value = w + a/2^18 + b/2^36 + c/2^54,                               *)
(* and every float operation of the source is the exact operation followed *)
(* by rounding to 53 significant bits, ties to even (Round53).  This       *)
(* covers every double in [1/4, 2^17) and the dyadic fractions below 1/4;  *)
(* the sizing functions, whose values leave that range or are negative,    *)
(* use the same numbers as significands, with a sign and an exponent.      *)
(***************************************************************************)
EXTENDS Integers, Sequences, FiniteSets, TLC

VARIABLES
    equipments,      \* EquipmentFactory._equipments: the ordered list
    lastOp,          \* the last registry call: its name, arguments and outcome
    self,            \* the Equipment whose get_hourly_consumption is running
    hourly,          \* get_hourly_consumption: the local list of 24 floats
    remaining_time,  \* get_hourly_consumption: the local remaining_time
    current_hour,    \* get_hourly_consumption: the local current_hour
    pc,              \* get_hourly_consumption: position in the method
    sizing,          \* the last call of a sizing function of
                     \* utils/calculations.py: its arguments and outcome
    threads,         \* the registry call each thread is making, and its
                     \* position in it
    saved_configs    \* utils/storage.py: the configuration file in
                     \* STORAGE_DIR

vars ==
    <<equipments, lastOp, self, hourly, remaining_time, current_hour, pc, sizing,
      threads, saved_configs>>

registryVars == <<equipments, lastOp>>

hourlyVars == <<self, hourly, remaining_time, current_hour, pc>>

sizingVars == <<sizing>>

threadVars == <<threads>>

storageVars == <<saved_configs>>

---------------------------------------------------------------------------
(* Bounds of the model                                                     *)

\* Longest registry the model builds.
MaxLen == 2

---------------------------------------------------------------------------
(* Python float arithmetic                                                 *)

Limb == 2^18

F64(w, a, b, c) == [w |-> w, a |-> a, b |-> b, c |-> c]

\* float(n) of a small int n >= 0
FromInt(n) == F64(n, 0, 0, 0)

Zero == FromInt(0)

\* x > 0
Positive(x) == x.w > 0 \/ x.a > 0 \/ x.b > 0 \/ x.c > 0

\* x >= 1
GeOne(x) == x.w >= 1

\* x < y and x <= y, limb by limb
Less(x, y) ==
    \/ x.w < y.w
    \/ x.w = y.w /\ x.a < y.a
    \/ x.w = y.w /\ x.a = y.a /\ x.b < y.b
    \/ x.w = y.w /\ x.a = y.a /\ x.b = y.b /\ x.c < y.c

LessEq(x, y) == x = y \/ Less(x, y)

\* The number with the given (possibly out of range) limbs, limbs brought
\* back into 0 .. Limb-1.
Carry(w, a, b, c) ==
    LET b1 == b + (c \div Limb)
        a1 == a + (b1 \div Limb)
    IN  F64(w + (a1 \div Limb), a1 % Limb, b1 % Limb, c % Limb)

\* Exact x + y, x - y (for x >= y) and p * x (p a small int)
ExactAdd(x, y) == Carry(x.w + y.w, x.a + y.a, x.b + y.b, x.c + y.c)

ExactSub(x, y) == Carry(x.w - y.w, x.a - y.a, x.b - y.b, x.c - y.c)

ExactMul(p, x) == Carry(p * x.w, p * x.a, p * x.b, p * x.c)

\* |x - y|
AbsDiff(x, y) == IF Less(x, y) THEN ExactSub(y, x) ELSE ExactSub(x, y)

RECURSIVE BitLen(_)
BitLen(n) == IF n = 0 THEN 0 ELSE 1 + BitLen(n \div 2)

\* Number of significant bits of x down to the unit 2^-54.
Bits(x) ==
    IF x.w > 0 THEN 54 + BitLen(x.w)
    ELSE IF x.a > 0 THEN 36 + BitLen(x.a)
    ELSE IF x.b > 0 THEN 18 + BitLen(x.b)
    ELSE BitLen(x.c)

\* Round to nearest double, ties to even: keep the 53 leading bits.
Round53(x) ==
    LET s == Bits(x) - 53
    IN  IF s <= 0 THEN x
        ELSE LET m    == 2^s
                 low  == x.c % m
                 half == m \div 2
                 lsb  == IF s < 18 THEN (x.c \div m) % 2 ELSE x.b % 2
                 up   == low > half \/ (low = half /\ lsb = 1)
             IN  Carry(x.w, x.a, x.b, x.c - low + (IF up THEN m ELSE 0))

\* x + y, x - 1 and p * x as Python computes them on floats
FAdd(x, y) == Round53(ExactAdd(x, y))

FSubOne(x) == Round53(ExactSub(x, FromInt(1)))

FMul(p, x) == Round53(ExactMul(p, x))

\* Doubles used as inputs: 0.25, 0.5, 2.5 and 24.5 are exact; 4.9 and 23.7
\* are the doubles Python reads from the literals 4.9 and 23.7.
Quarter == F64(0, 65536, 0, 0)

Half == F64(0, 131072, 0, 0)

TwoAndHalf == F64(2, 131072, 0, 0)

FourPointNine == F64(4, 235929, 157286, 104864)

TwentyThreePointSeven == F64(23, 183500, 209715, 52416)

TwentyFourAndHalf == F64(24, 131072, 0, 0)

TwentyFivePointThree == F64(25, 78643, 52428, 209728)

---------------------------------------------------------------------------
(* class Equipment                                                         *)

Hours == 0 .. 23

\* Variant of Equipment: the end hour not brought back into the day.
Equipment_NoWrap(name, power, time, start_hour) ==
    [name       |-> name,
     power      |-> power,
     time       |-> time,
     start_hour |-> start_hour,
     end_hour   |-> FAdd(FromInt(start_hour), time).w]

\* Equipment.__init__ with end_hour not supplied:
\* end_hour = int((start_hour + time) % 24)
Equipment(name, power, time, start_hour) ==
    [name       |-> name,
     power      |-> power,
     time       |-> time,
     start_hour |-> start_hour,
     end_hour   |-> FAdd(FromInt(start_hour), time).w % 24]

\* Equipment.__init__ with end_hour supplied: stored as given
EquipmentWithEnd(name, power, time, start_hour, end_hour) ==
    [name       |-> name,
     power      |-> power,
     time       |-> time,
     start_hour |-> start_hour,
     end_hour   |-> end_hour]

\* Equipment.__init__; the optional end_hour is <<>> for None and <<e>>
\* for the int e.
Equipment_init(name, power, time, start_hour, end_hour) ==
    IF end_hour = <<>> THEN Equipment(name, power, time, start_hour)
    ELSE EquipmentWithEnd(name, power, time, start_hour, end_hour[1])

\* Variants of __eq__ a slip would produce: comparing the other fields too,
\* and comparing names without regard to case.
Eq_AllFields(e1, e2) == e1.name = e2.name /\ e1.power = e2.power

Lower(name) == IF name = "TV" THEN "tv" ELSE name

Eq_IgnoreCase(e1, e2) == Lower(e1.name) = Lower(e2.name)

\* Equipment.__eq__: equality is by name alone; string comparison is exact.
Eq(e1, e2) == e1.name = e2.name

\* Equipment.daily_energy_consumption
daily_energy_consumption(e) == FMul(e.power, e.time)

\* [0.0] * 24
Zeros == [h \in Hours |-> Zero]

\* Variants of the loop body a slip would produce: the partial hour gets
\* the full power; the hours after 23 are put on hour 23 instead of wrapping
\* to 0; a full hour takes only half an hour off remaining_time.
WhileBody_FullPartial(power, st) ==
    [hourly         |-> [st.hourly EXCEPT ![st.current_hour % 24] =
                             FAdd(@, FromInt(power))],
     remaining_time |-> IF GeOne(st.remaining_time)
                        THEN FSubOne(st.remaining_time) ELSE Zero,
     current_hour   |-> st.current_hour + 1]

WhileBody_NoWrap(power, st) ==
    LET slot == IF st.current_hour > 23 THEN 23 ELSE st.current_hour
    IN  IF GeOne(st.remaining_time)
        THEN [hourly         |-> [st.hourly EXCEPT ![slot] = FAdd(@, FromInt(power))],
              remaining_time |-> FSubOne(st.remaining_time),
              current_hour   |-> st.current_hour + 1]
        ELSE [hourly         |-> [st.hourly EXCEPT ![slot] =
                                      FAdd(@, FMul(power, st.remaining_time))],
              remaining_time |-> Zero,
              current_hour   |-> st.current_hour + 1]

WhileBody_HalfStep(power, st) ==
    IF GeOne(st.remaining_time)
    THEN [hourly         |-> [st.hourly EXCEPT ![st.current_hour % 24] =
                                  FAdd(@, FromInt(power))],
          remaining_time |-> Round53(ExactSub(st.remaining_time, Half)),
          current_hour   |-> st.current_hour + 1]
    ELSE [hourly         |-> [st.hourly EXCEPT ![st.current_hour % 24] =
                                  FAdd(@, FMul(power, st.remaining_time))],
          remaining_time |-> Zero,
          current_hour   |-> st.current_hour + 1]

\* A further variant: the hour is assigned its share instead of having it
\* added.
WhileBody_Overwrite(power, st) ==
    IF GeOne(st.remaining_time)
    THEN [hourly         |-> [st.hourly EXCEPT ![st.current_hour % 24] =
                                  FromInt(power)],
          remaining_time |-> FSubOne(st.remaining_time),
          current_hour   |-> st.current_hour + 1]
    ELSE [hourly         |-> [st.hourly EXCEPT ![st.current_hour % 24] =
                                  FMul(power, st.remaining_time)],
          remaining_time |-> Zero,
          current_hour   |-> st.current_hour + 1]

\* One iteration of the while loop of get_hourly_consumption; st holds the
\* locals hourly, remaining_time and current_hour.
WhileBody(power, st) ==
    IF GeOne(st.remaining_time)
    THEN [hourly         |-> [st.hourly EXCEPT ![st.current_hour % 24] =
                                  FAdd(@, FromInt(power))],
          remaining_time |-> FSubOne(st.remaining_time),
          current_hour   |-> st.current_hour + 1]
    ELSE [hourly         |-> [st.hourly EXCEPT ![st.current_hour % 24] =
                                  FAdd(@, FMul(power, st.remaining_time))],
          remaining_time |-> Zero,
          current_hour   |-> st.current_hour + 1]

RECURSIVE While(_, _)
While(power, st) ==
    IF Positive(st.remaining_time) THEN While(power, WhileBody(power, st))
    ELSE st

\* Equipment.get_hourly_consumption, run to completion
get_hourly_consumption(e) ==
    IF Positive(e.time)
    THEN While(e.power, [hourly         |-> Zeros,
                         remaining_time |-> e.time,
                         current_hour   |-> e.start_hour]).hourly
    ELSE Zeros

---------------------------------------------------------------------------
(* class EquipmentFactory                                                  *)

\* x in list (by __eq__), list.index(x)
Contains(list, x) == \E i \in 1 .. Len(list) : Eq(list[i], x)

\* Variant of list.index: the last element equal to x.
IndexOf_Last(list, x) ==
    CHOOSE i \in 1 .. Len(list) :
        /\ Eq(list[i], x)
        /\ \A j \in i + 1 .. Len(list) : ~Eq(list[j], x)

IndexOf(list, x) ==
    CHOOSE i \in 1 .. Len(list) :
        /\ Eq(list[i], x)
        /\ \A j \in 1 .. i - 1 : ~Eq(list[j], x)

\* Variant of list.remove: drops every element equal to x.
RemoveFirst_All(list, x) == SelectSeq(list, LAMBDA e : ~Eq(e, x))

\* list.remove(x) for x in list: drops the first element equal to x
RemoveFirst(list, x) ==
    LET i == IndexOf(list, x)
    IN  [k \in 1 .. Len(list) - 1 |-> IF k < i THEN list[k] ELSE list[k + 1]]

NoEquipment == Equipment("", 0, Zero, 0)

\* No configuration has been saved.
NoFile == [exists |-> FALSE, equipments |-> <<>>]

\* The threads that may call the registry, and a thread making no call
Threads == {1, 2}

Idle ==
    [pc |-> "idle", op |-> "", name |-> "", result |-> "", disturbed |-> FALSE,
     overlap |-> FALSE]

NoThreads == [t \in Threads |-> Idle]

\* No sizing function has been called.
NoCall ==
    [fn |-> "", args |-> <<>>, pc |-> "idle", raises |-> "", value |-> "None"]

Call(op, name, arg, result) ==
    [op |-> op, name |-> name, arg |-> arg, result |-> result]

add_equipment(name, power, time, start_hour) ==
    LET new_equipment == Equipment(name, power, time, start_hour)
    IN  IF Contains(equipments, new_equipment)
        THEN /\ equipments' = equipments
             /\ lastOp' = Call("add_equipment", name, new_equipment, "ValueError")
        ELSE /\ Len(equipments) < MaxLen
             /\ equipments' = Append(equipments, new_equipment)
             /\ lastOp' = Call("add_equipment", name, new_equipment, "ok")

\* Variant of delete_equipment: a missing equipment is silently ignored.
delete_equipment_Discard(equipment) ==
    /\ equipments' = IF Contains(equipments, equipment)
                     THEN RemoveFirst(equipments, equipment) ELSE equipments
    /\ lastOp' = Call("delete_equipment", equipment.name, NoEquipment, "ok")

delete_equipment(equipment) ==
    IF Contains(equipments, equipment)
    THEN /\ equipments' = RemoveFirst(equipments, equipment)
         /\ lastOp' = Call("delete_equipment", equipment.name, NoEquipment, "ok")
    ELSE /\ equipments' = equipments
         /\ lastOp' = Call("delete_equipment", equipment.name, NoEquipment,
                           "ValueError")

delete_all_equipments ==
    /\ equipments' = <<>>
    /\ lastOp' = Call("delete_all_equipments", "", NoEquipment, "ok")

\* Variant of edit_equipment: refuses a new name another entry already has.
edit_equipment_Guarded(old_equipment, new_name, new_power, new_time, new_start_hour) ==
    LET new_equipment == Equipment(new_name, new_power, new_time, new_start_hour)
    IN  IF /\ Contains(equipments, old_equipment)
           /\ ~(new_name # old_equipment.name /\ Contains(equipments, new_equipment))
        THEN /\ equipments' =
                    [equipments EXCEPT ![IndexOf(equipments, old_equipment)] =
                                           new_equipment]
             /\ lastOp' = Call("edit_equipment", old_equipment.name,
                               new_equipment, "ok")
        ELSE /\ equipments' = equipments
             /\ lastOp' = Call("edit_equipment", old_equipment.name,
                               new_equipment, "ValueError")

edit_equipment(old_equipment, new_name, new_power, new_time, new_start_hour) ==
    LET new_equipment == Equipment(new_name, new_power, new_time, new_start_hour)
    IN  IF Contains(equipments, old_equipment)
        THEN /\ equipments' =
                    [equipments EXCEPT ![IndexOf(equipments, old_equipment)] =
                                           new_equipment]
             /\ lastOp' = Call("edit_equipment", old_equipment.name,
                               new_equipment, "ok")
        ELSE /\ equipments' = equipments
             /\ lastOp' = Call("edit_equipment", old_equipment.name,
                               new_equipment, "ValueError")

is_empty == Len(equipments) = 0

\* get_equipment_by_name: the first entry with that name, or None
get_equipment_by_name(name) ==
    IF \E i \in 1 .. Len(equipments) : equipments[i].name = name
    THEN equipments[CHOOSE i \in 1 .. Len(equipments) :
                        /\ equipments[i].name = name
                        /\ \A j \in 1 .. i - 1 : equipments[j].name # name]
    ELSE NoEquipment

\* total_power: sum(equipment.power for equipment in self._equipments)
RECURSIVE SumPower(_, _)
SumPower(list, acc) ==
    IF list = <<>> THEN acc ELSE SumPower(Tail(list), acc + Head(list).power)

total_power == SumPower(equipments, 0)

\* total_energy_consumption: sum(equipment.daily_energy_consumption() ...)
RECURSIVE SumEnergy(_, _)
SumEnergy(list, acc) ==
    IF list = <<>> THEN acc
    ELSE SumEnergy(Tail(list), FAdd(acc, daily_energy_consumption(Head(list))))

total_energy_consumption == SumEnergy(equipments, Zero)

\* Variant of get_hourly_profile: hourly_total[i] = hourly[i] (overwrites).
RECURSIVE SumProfile_Overwrite(_, _)
SumProfile_Overwrite(list, hourly_total) ==
    IF list = <<>> THEN hourly_total
    ELSE SumProfile_Overwrite(Tail(list),
                              [i \in Hours |->
                                  get_hourly_consumption(Head(list))[i]])

\* get_hourly_profile: hourly_total[i] += hourly[i] for every equipment
RECURSIVE SumProfile(_, _)
SumProfile(list, hourly_total) ==
    IF list = <<>> THEN hourly_total
    ELSE SumProfile(Tail(list),
                    [i \in Hours |->
                        FAdd(hourly_total[i],
                             get_hourly_consumption(Head(list))[i])])

get_hourly_profile == SumProfile(equipments, Zeros)

---------------------------------------------------------------------------
(* The registry driven by its callers                                      *)

\* Names differing only in case are different names.
Names == {"tv", "TV", "lamp"}

\* (power, time, start_hour) of the appliances the callers declare
Loads ==
    { [power |-> 10,  time |-> FromInt(2), start_hour |-> 23],
      [power |-> 100, time |-> Half,       start_hour |-> 0],
      [power |-> 100, time |-> FromInt(2), start_hour |-> 23] }

\* Equipment objects a caller may hold, current or stale
Held == { Equipment(n, l.power, l.time, l.start_hour) : n \in Names, l \in Loads }

HourlyIdle ==
    /\ self = NoEquipment
    /\ hourly = Zeros
    /\ remaining_time = Zero
    /\ current_hour = 0
    /\ pc = "idle"

Init ==
    /\ equipments = <<>>
    /\ lastOp = Call("__init__", "", NoEquipment, "ok")
    /\ HourlyIdle
    /\ sizing = NoCall
    /\ threads = NoThreads
    /\ saved_configs = NoFile

Add ==
    /\ \E name \in Names, l \in Loads :
           add_equipment(name, l.power, l.time, l.start_hour)
    /\ UNCHANGED <<hourlyVars, sizingVars, threadVars, storageVars>>

Edit ==
    /\ \E old \in Held, new_name \in Names, l \in Loads :
           edit_equipment(old, new_name, l.power, l.time, l.start_hour)
    /\ UNCHANGED <<hourlyVars, sizingVars, threadVars, storageVars>>

Delete ==
    /\ \E equipment \in Held : delete_equipment(equipment)
    /\ UNCHANGED <<hourlyVars, sizingVars, threadVars, storageVars>>

DeleteAll ==
    /\ delete_all_equipments
    /\ UNCHANGED <<hourlyVars, sizingVars, threadVars, storageVars>>

Next == Add \/ Edit \/ Delete \/ DeleteAll

Spec == Init /\ [][Next]_vars

---------------------------------------------------------------------------
(* Properties of the registry (specification Spec)                         *)

\* Some entry of list has this name.
HasName(list, name) == \E i \in 1 .. Len(list) : list[i].name = name

\* Lowest position of list holding this name.
FirstNamed(list, name) ==
    CHOOSE i \in 1 .. Len(list) :
        /\ list[i].name = name
        /\ \A j \in 1 .. i - 1 : list[j].name # name

\* list without its position k.
Without(list, k) == SubSeq(list, 1, k - 1) \o SubSeq(list, k + 1, Len(list))

\* C1: in every registry state reachable by add, edit, remove and clear
\* calls, no two entries have equal names.
C1_UniqueNames ==
    \A i, j \in 1 .. Len(equipments) :
        i # j => equipments[i].name # equipments[j].name

\* C2: add with a name some entry already holds fails, whatever the other
\* arguments are, and leaves the registry as it was.
C2_DuplicateAddFails ==
    [][(lastOp'.op = "add_equipment" /\ HasName(equipments, lastOp'.name))
         => (lastOp'.result = "ValueError" /\ equipments' = equipments)]_vars

\* C2 witness: a failed add whose power differs from the power of the
\* entry holding the name.
C2_Witness ==
    /\ lastOp.op = "add_equipment"
    /\ lastOp.result = "ValueError"
    /\ \E i \in 1 .. Len(equipments) :
           /\ equipments[i].name = lastOp.name
           /\ equipments[i].power # lastOp.arg.power

\* C3: add succeeds exactly when no entry has exactly that name (names that
\* differ only in case are different); a successful add puts the new
\* appliance last and leaves the earlier entries where and as they were.
C3_AddAppends ==
    [][lastOp'.op = "add_equipment"
         => /\ (lastOp'.result = "ok") <=> ~HasName(equipments, lastOp'.name)
            /\ lastOp'.result = "ok"
                 => /\ Len(equipments') = Len(equipments) + 1
                    /\ equipments'[Len(equipments')] = lastOp'.arg
                    /\ lastOp'.arg.name = lastOp'.name
                    /\ \A i \in 1 .. Len(equipments) :
                           equipments'[i] = equipments[i]]_vars

\* C3 witness: "TV" was added to a registry that already held "tv".
C3_Witness ==
    /\ Len(equipments) = 2
    /\ equipments[1].name = "tv"
    /\ equipments[2].name = "TV"
    /\ lastOp = Call("add_equipment", "TV", equipments[2], "ok")

\* C4: edit and remove of a target whose name no entry holds fail and leave
\* the registry as it was.
C4_MissingTargetFails ==
    [][(/\ lastOp'.op \in {"edit_equipment", "delete_equipment"}
        /\ ~HasName(equipments, lastOp'.name))
         => (lastOp'.result = "ValueError" /\ equipments' = equipments)]_vars

\* C4 witness: a remove failed on a registry that holds another entry.
C4_Witness ==
    /\ lastOp.op = "delete_equipment"
    /\ lastOp.result = "ValueError"
    /\ Len(equipments) > 0
    /\ ~HasName(equipments, lastOp.name)

\* C5: edit of an existing target succeeds for every new name, also the
\* name of another entry; the entry at the target's position becomes the
\* appliance with the new values, the length and the other positions stay.
C5_EditInPlace ==
    [][(lastOp'.op = "edit_equipment" /\ HasName(equipments, lastOp'.name))
         => /\ lastOp'.result = "ok"
            /\ Len(equipments') = Len(equipments)
            /\ equipments'[FirstNamed(equipments, lastOp'.name)] = lastOp'.arg
            /\ \A i \in 1 .. Len(equipments) :
                   i # FirstNamed(equipments, lastOp'.name)
                       => equipments'[i] = equipments[i]]_vars

\* C5 witness: an edit gave its target the name of another entry.
C5_Witness ==
    /\ lastOp.op = "edit_equipment"
    /\ lastOp.result = "ok"
    /\ lastOp.name # lastOp.arg.name
    /\ \E i, j \in 1 .. Len(equipments) :
           /\ i # j
           /\ equipments[i] = lastOp.arg
           /\ equipments[j].name = lastOp.arg.name

RECURSIVE ExactSumTo(_, _)
ExactSumTo(f, n) == IF n = 0 THEN Zero ELSE ExactAdd(ExactSumTo(f, n - 1), f[n])

RECURSIVE IntSumTo(_, _)
IntSumTo(f, n) == IF n = 0 THEN 0 ELSE IntSumTo(f, n - 1) + f[n]

\* C7: in every reachable registry state the aggregates are those of the
\* current entries: total_power is the sum of the powers, total_energy the
\* sum of power * usage_hours, hourly_profile[h] the sum of the entries'
\* hourly distributions at h; all are zero for the empty registry.
C7_AggregatesOfCurrentEntries ==
    LET n == Len(equipments)
    IN  /\ total_power = IntSumTo([i \in 1 .. n |-> equipments[i].power], n)
        /\ total_energy_consumption =
               ExactSumTo([i \in 1 .. n |->
                              ExactMul(equipments[i].power, equipments[i].time)], n)
        /\ \A h \in Hours :
               get_hourly_profile[h] =
                   ExactSumTo([i \in 1 .. n |->
                                  get_hourly_consumption(equipments[i])[h]], n)
        /\ n = 0 => /\ total_power = 0
                    /\ total_energy_consumption = Zero
                    /\ get_hourly_profile = Zeros

\* C7 witness: after an edit, two entries load hour 23 together.
C7_Witness ==
    /\ lastOp.op = "edit_equipment"
    /\ lastOp.result = "ok"
    /\ Len(equipments) = 2
    /\ total_power = 110
    /\ total_energy_consumption = FromInt(220)
    /\ get_hourly_profile[23] = FromInt(110)
    /\ get_hourly_profile[0] = FromInt(110)
    /\ get_hourly_profile[1] = Zero

---------------------------------------------------------------------------
(* get_hourly_consumption executed step by step on one appliance           *)

HourlyPowers == {1, 100}

HourlyTimes ==
    { Zero, Quarter, Half, FromInt(1), TwoAndHalf, FromInt(3), FourPointNine,
      TwentyThreePointSeven, FromInt(24), TwentyFourAndHalf,
      TwentyFivePointThree, FromInt(26) }

EndHours == {<<>>, <<22>>}

\* The appliance is constructed; lastOp keeps the arguments of __init__.
InitHourly ==
    /\ equipments = <<>>
    /\ \E p \in HourlyPowers, t \in HourlyTimes, s \in Hours, e \in EndHours :
           /\ lastOp = Call("__init__", "load",
                            [power |-> p, time |-> t, start_hour |-> s,
                             end_hour |-> e], "ok")
           /\ self = Equipment_init("load", p, t, s, e)
    /\ hourly = Zeros
    /\ remaining_time = Zero
    /\ current_hour = 0
    /\ pc = "call"
    /\ sizing = NoCall
    /\ threads = NoThreads
    /\ saved_configs = NoFile

\* hourly = [0.0] * 24; if self.time > 0: set up the locals
Enter ==
    /\ pc = "call"
    /\ hourly' = Zeros
    /\ IF Positive(self.time)
       THEN /\ remaining_time' = self.time
            /\ current_hour' = self.start_hour
            /\ pc' = "while"
       ELSE /\ UNCHANGED <<remaining_time, current_hour>>
            /\ pc' = "return"
    /\ UNCHANGED <<self, registryVars, sizingVars, threadVars, storageVars>>

\* while remaining_time > 0: one iteration
Step ==
    /\ pc = "while"
    /\ Positive(remaining_time)
    /\ LET st == WhileBody(self.power,
                           [hourly         |-> hourly,
                            remaining_time |-> remaining_time,
                            current_hour   |-> current_hour])
       IN  /\ hourly' = st.hourly
           /\ remaining_time' = st.remaining_time
           /\ current_hour' = st.current_hour
    /\ UNCHANGED <<pc, self, registryVars, sizingVars, threadVars, storageVars>>

\* the loop condition fails: return hourly
Exit ==
    /\ pc = "while"
    /\ ~Positive(remaining_time)
    /\ pc' = "return"
    /\ UNCHANGED <<hourly, remaining_time, current_hour, self, registryVars,
                   sizingVars, threadVars, storageVars>>

NextHourly == Enter \/ Step \/ Exit

SpecHourly == InitHourly /\ [][NextHourly]_vars

---------------------------------------------------------------------------
(* Properties of the hourly distribution (specification SpecHourly)        *)

\* The 24 slots added up without rounding.
RECURSIVE SlotSumTo(_)
SlotSumTo(h) == IF h < 0 THEN Zero ELSE ExactAdd(SlotSumTo(h - 1), hourly[h])

SlotSum == SlotSumTo(23)

\* power * usage_hours without rounding
Energy == ExactMul(self.power, self.time)

\* Number of hours showing load
Loaded == Cardinality({h \in Hours : Positive(hourly[h])})

Returned == pc = "return" /\ Positive(self.time)

\* 2^52 * d for a small d >= 0, and |x - y| <= 2^-52 * y
Shl52(d) == F64(d.b * 65536 + (d.c \div 4), (d.c % 4) * 65536, 0, 0)

WithinRounding(x, y) ==
    LET d == AbsDiff(x, y)
    IN  d.w = 0 /\ d.a = 0 /\ d.b < 4096 /\ LessEq(Shl52(d), y)

\* usage_hours is a whole number of quarter hours
QuarterHours(t) == t.b = 0 /\ t.c = 0 /\ t.a % 65536 = 0

\* C8 as claimed: the 24 slots sum to exactly power * usage_hours (read as
\* the exact product or as the float the code computes for it).
C8_SumExact ==
    Returned => (SlotSum = Energy \/ SlotSum = daily_energy_consumption(self))

\* C8 amended: the 24 slots sum to power * usage_hours up to floating-point
\* rounding (relative error at most 2^-52), and exactly when usage_hours
\* is a whole number of quarter hours.
C8_SumWithinRounding ==
    Returned => /\ WithinRounding(SlotSum, Energy)
                /\ QuarterHours(self.time) => SlotSum = Energy

\* C8 witness: 100 W for 4.9 h, where the partial hour's product is rounded.
C8_Witness ==
    /\ Returned
    /\ self.power = 100
    /\ self.time = FourPointNine
    /\ SlotSum # Energy
    /\ WithinRounding(SlotSum, Energy)

\* C9: with usage_hours <= 24 and start_hour + usage_hours > 24, the load
\* is on exactly the hours start_hour .. 23 and the hours h with
\* 0 <= h < (start_hour + usage_hours) mod 24.
C9_WrapsPastMidnight ==
    (/\ Returned
     /\ LessEq(self.time, FromInt(24))
     /\ Less(FromInt(24), ExactAdd(FromInt(self.start_hour), self.time)))
      => LET whole == (self.start_hour + self.time.w) % 24
             frac  == self.time.a > 0 \/ self.time.b > 0 \/ self.time.c > 0
         IN  \A h \in Hours :
                 Positive(hourly[h]) <=>
                     \/ h >= self.start_hour
                     \/ h < whole
                     \/ h = whole /\ frac

\* C9 witness: 2.5 h from 23:00 load the hours 23, 0 and (half) 1.
C9_Witness ==
    /\ Returned
    /\ self.start_hour = 23
    /\ self.time = TwoAndHalf
    /\ {h \in Hours : Positive(hourly[h])} = {23, 0, 1}

\* C10 as claimed: the number of hours showing load is no more than
\* usage_hours.
C10_LoadedAtMostUsage == Returned => LessEq(FromInt(Loaded), self.time)

\* C10 amended: the number of hours showing load is no more than
\* usage_hours rounded up to a whole number of hours.
C10_LoadedAtMostCeiling ==
    Returned =>
        Loaded <= self.time.w + (IF self.time = FromInt(self.time.w) THEN 0 ELSE 1)

\* C10 witness: half an hour of use loads one hour.
C10_Witness ==
    /\ Returned
    /\ self.time = Half
    /\ Loaded = 1

---------------------------------------------------------------------------
(* Python floats of any magnitude and sign (src/utils/calculations.py)     *)

\* A double of any size is held as sign, significand and binary exponent,
\*     value = (-1)^neg * sig * 2^exp,
\* the significand a number of the kind above in [1, 2) (52 fractional
\* bits); zero has significand Zero and exponent 0.
Double(neg, sig, exp) == [neg |-> neg, sig |-> sig, exp |-> exp]

DZero == Double(FALSE, Zero, 0)

\* Exact 2 * x and x / 2 (x / 2 for x whose last bit is clear)
Twice(x) == ExactAdd(x, x)

HalfOf(x) ==
    F64(x.w \div 2,
        (x.a \div 2) + (x.w % 2) * (Limb \div 2),
        (x.b \div 2) + (x.a % 2) * (Limb \div 2),
        (x.c \div 2) + (x.b % 2) * (Limb \div 2))

\* Exact x * 2^k
RECURSIVE Scale(_, _)
Scale(x, k) ==
    IF k = 0 THEN x
    ELSE IF k > 0 THEN Scale(Twice(x), k - 1)
    ELSE Scale(HalfOf(x), k + 1)

\* Significand and exponent of the double x * 2^e, x > 0.
RECURSIVE Normal(_, _)
Normal(x, e) ==
    IF x.w >= 2 THEN Normal(HalfOf(x), e + 1)
    ELSE IF x.w = 0 THEN Normal(Twice(x), e - 1)
    ELSE [sig |-> x, exp |-> e]

\* The double with magnitude x (a number of the kind above) and this sign
ToDouble(neg, x) ==
    IF x = Zero THEN DZero
    ELSE LET n == Normal(x, 0) IN Double(neg, n.sig, n.exp)

\* float(n) of an int n
DInt(n) == ToDouble(n < 0, FromInt(IF n < 0 THEN -n ELSE n))

\* The magnitude of d as a number of the kind above (for 1/4 <= |d| < 2^30)
Magnitude(d) == Scale(d.sig, d.exp)

\* 2^-t, t in 0 .. 54
Bit(t) ==
    IF t = 0 THEN FromInt(1)
    ELSE IF t <= 18 THEN F64(0, 2^(18 - t), 0, 0)
    ELSE IF t <= 36 THEN F64(0, 0, 2^(36 - t), 0)
    ELSE F64(0, 0, 0, 2^(54 - t))

\* A double is short when its significand has at most 13 bits; then
\* sig * 2^12 is an int below 2^13.
IsShort(d) == LET m == ExactMul(2^12, d.sig) IN m = FromInt(m.w)

ShortInt(d) == ExactMul(2^12, d.sig).w

\* x * y of two doubles, one of them short: the exact product rounded once.
DMul(x, y) ==
    IF x.sig = Zero \/ y.sig = Zero THEN DZero
    ELSE LET short == CHOOSE d \in {x, y} : IsShort(d)
             long  == IF short = y THEN x ELSE y
             n     == Normal(Round53(ExactMul(ShortInt(short), long.sig)), 0)
         IN  Double(x.neg # y.neg, n.sig, long.exp + short.exp - 12 + n.exp)

\* One step of the long division of significands: the quotient bit of
\* weight 2^-t is set when the divisor fits the remainder.
DivStep(st, d) ==
    LET bit  == LessEq(d, st.rem)
        rem1 == IF bit THEN ExactSub(st.rem, d) ELSE st.rem
    IN  [rem |-> Twice(rem1),
         q   |-> IF bit THEN ExactAdd(st.q, Bit(st.t)) ELSE st.q,
         t   |-> st.t + 1,
         bit |-> bit]

\* The first 53 bits of the quotient, or fewer when the division is exact
RECURSIVE DivLoop(_, _)
DivLoop(st, d) ==
    IF st.t = 53 \/ st.rem = Zero THEN st ELSE DivLoop(DivStep(st, d), d)

\* x / y of two doubles, y # 0: the exact quotient rounded once, to
\* nearest, ties to even.
DDiv(x, y) ==
    IF x.sig = Zero THEN DZero
    ELSE LET j  == IF Less(x.sig, y.sig) THEN -1 ELSE 0
             st == DivLoop([rem |-> Scale(x.sig, -j), q |-> Zero, t |-> 0,
                            bit |-> FALSE], y.sig)
             up == Less(y.sig, st.rem) \/ (st.rem = y.sig /\ st.bit)
             n  == Normal(IF up THEN ExactAdd(st.q, Bit(52)) ELSE st.q, 0)
         IN  Double(x.neg # y.neg, n.sig, x.exp - y.exp + j + n.exp)

\* x < y and x <= y of two doubles
DLessMag(x, y) ==
    IF y.sig = Zero THEN FALSE
    ELSE IF x.sig = Zero THEN TRUE
    ELSE x.exp < y.exp \/ (x.exp = y.exp /\ Less(x.sig, y.sig))

DLess(x, y) ==
    IF x.neg /\ y.neg THEN DLessMag(y, x)
    ELSE IF x.neg THEN TRUE
    ELSE IF y.neg THEN FALSE
    ELSE DLessMag(x, y)

DLessEq(x, y) == x = y \/ DLess(x, y)

\* Integer part of |d|
FloorMag(d) == IF d.sig = Zero \/ d.exp < 0 THEN 0 ELSE Magnitude(d).w

\* d is a whole number
IsWhole(d) ==
    d.sig = Zero \/ (d.exp >= 0 /\ Magnitude(d) = FromInt(FloorMag(d)))

\* Variants of math.ceil a slip would produce: math.floor and round.
ceil_Floor(d) ==
    IF d.neg /\ ~IsWhole(d) THEN -(FloorMag(d) + 1)
    ELSE IF d.neg THEN -FloorMag(d)
    ELSE FloorMag(d)

\* math.ceil(d): an int
ceil(d) ==
    IF d.neg THEN -FloorMag(d)
    ELSE IF IsWhole(d) THEN FloorMag(d)
    ELSE FloorMag(d) + 1

\* round(d) with one argument: the nearest int, ties to the even one.
round(d) ==
    LET m    == IF d.sig = Zero \/ d.exp < -1 THEN Zero ELSE Magnitude(d)
        frac == ExactSub(m, FromInt(m.w))
        up   == Less(Half, frac) \/ (frac = Half /\ m.w % 2 = 1)
        r    == IF up THEN m.w + 1 ELSE m.w
    IN  IF d.neg THEN -r ELSE r

\* Float literals and arguments of the sizing functions; 0.3, 0.8, 0.01724,
\* 0.98 and 0.85 are the nearest doubles.
OneAndQuarter == ToDouble(FALSE, F64(1, 65536, 0, 0))

PointThree == Double(FALSE, F64(1, 52428, 209715, 52428), -2)

PointFive == ToDouble(FALSE, Half)

PointEight == Double(FALSE, F64(1, 157286, 104857, 157288), -1)

MinusPointFive == ToDouble(TRUE, Half)

MinusFive == DInt(-5)

\* 100 * 4.9 = 490.00000000000006, a daily energy the registry produces
FourNinety == ToDouble(FALSE, daily_energy_consumption(Equipment("x", 100, FourPointNine, 0)))

---------------------------------------------------------------------------
(* src/utils/calculations.py: the sizing functions                         *)

\* Outcome of a call: the value returned, or the exception raised
Return(v) == [raises |-> "", value |-> v]

Raise(e) == [raises |-> e, value |-> "None"]

\* Variant of x / y: a zero divisor gives zero instead of an exception.
TrueDiv_ZeroOnZero(x, y) == IF y.sig = Zero THEN Return(DZero) ELSE Return(DDiv(x, y))

\* Python x / y on floats (ints are converted first): ZeroDivisionError
\* when y is zero, of either sign.
TrueDiv(x, y) ==
    IF y.sig = Zero THEN Raise("ZeroDivisionError") ELSE Return(DDiv(x, y))

\* energy_needed = daily_energy_wh * autonomy_days
energy_needed(daily_energy_wh, autonomy_days) ==
    DMul(daily_energy_wh, DInt(autonomy_days))

\* Variant of battery_energy: divides by the depth of discharge.
battery_energy_PerDepth(battery_voltage, battery_capacity_ah, discharge_depth) ==
    IF discharge_depth.sig = Zero THEN DZero
    ELSE DDiv(DInt(battery_voltage * battery_capacity_ah), discharge_depth)

\* battery_energy = battery_voltage * battery_capacity_ah * discharge_depth
battery_energy(battery_voltage, battery_capacity_ah, discharge_depth) ==
    DMul(DInt(battery_voltage * battery_capacity_ah), discharge_depth)

\* battery_needed: math.ceil(energy_needed / battery_energy)
battery_needed(daily_energy_wh, battery_voltage, battery_capacity_ah, autonomy_days, discharge_depth) ==
    LET q == TrueDiv(energy_needed(daily_energy_wh, autonomy_days),
                     battery_energy(battery_voltage, battery_capacity_ah,
                                    discharge_depth))
    IN  IF q.raises # "" THEN q ELSE Return(ceil(q.value))

\* Variants of panel_needed: the sun hours left out of the daily
\* production of a panel, and the panel power divided by the sun hours.
panel_needed_NoSun(daily_energy_wh, pv_power_w, sun_hours) ==
    LET q == TrueDiv(daily_energy_wh, DInt(pv_power_w))
    IN  IF q.raises # "" THEN q ELSE Return(ceil(q.value))

panel_needed_PerSunHour(daily_energy_wh, pv_power_w, sun_hours) ==
    LET q == TrueDiv(daily_energy_wh,
                     IF sun_hours.sig = Zero THEN DZero
                     ELSE DDiv(DInt(pv_power_w), sun_hours))
    IN  IF q.raises # "" THEN q ELSE Return(ceil(q.value))

\* panel_needed: math.ceil(daily_energy_wh / (pv_power_w * sun_hours))
panel_needed(daily_energy_wh, pv_power_w, sun_hours) ==
    LET q == TrueDiv(daily_energy_wh, DMul(DInt(pv_power_w), sun_hours))
    IN  IF q.raises # "" THEN q ELSE Return(ceil(q.value))

\* The efficiency literals 0.98 and 0.85
MpptEfficiency == Double(FALSE, F64(1, 251658, 62914, 146800), -1)

PwmEfficiency == Double(FALSE, F64(1, 183500, 209715, 52428), -1)

\* Variants of the efficiency choice: the two values exchanged, and the
\* type compared without regard to case.
efficiency_Swapped(regulator_type) ==
    IF regulator_type = "MPPT" THEN PwmEfficiency ELSE MpptEfficiency

efficiency_AnyCase(regulator_type) ==
    IF regulator_type \in {"MPPT", "mppt"} THEN MpptEfficiency ELSE PwmEfficiency

\* efficiency = 0.98 if regulator_type == "MPPT" else 0.85
efficiency(regulator_type) ==
    IF regulator_type = "MPPT" THEN MpptEfficiency ELSE PwmEfficiency

\* calculate_regulator
calculate_regulator(pv_power, battery_voltage, regulator_type) ==
    LET nominal_current == TrueDiv(DInt(pv_power), DInt(battery_voltage))
    IN  IF nominal_current.raises # "" THEN nominal_current
        ELSE Return([nominal_current     |-> nominal_current.value,
                     recommended_current |->
                         DMul(nominal_current.value, OneAndQuarter),
                     nominal_power       |-> pv_power,
                     efficiency          |-> efficiency(regulator_type),
                     type                |-> regulator_type])

\* rho_copper = 0.01724
rho_copper == Double(FALSE, F64(1, 27095, 53435, 113496), -6)

\* Variant of max_drop_volts: the percentage divided by the voltage.
max_drop_volts_PerVolt(voltage, max_drop_percent) ==
    DDiv(DDiv(max_drop_percent, DInt(100)), DInt(voltage))

\* max_drop_volts = voltage * (max_drop_percent / 100)
max_drop_volts(voltage, max_drop_percent) ==
    DMul(DInt(voltage), DDiv(max_drop_percent, DInt(100)))

\* 2 * rho_copper * current * length, evaluated left to right
LoopResistanceDrop(current, length) ==
    DMul(DMul(DMul(DInt(2), rho_copper), current), length)

\* min_section = (2 * rho_copper * current * length) / max_drop_volts
min_section(current, length, voltage, max_drop_percent) ==
    TrueDiv(LoopResistanceDrop(current, length),
            max_drop_volts(voltage, max_drop_percent))

\* standard_sections
standard_sections ==
    << ToDouble(FALSE, F64(1, 131072, 0, 0)), ToDouble(FALSE, TwoAndHalf),
       DInt(4), DInt(6), DInt(10), DInt(16), DInt(25), DInt(35), DInt(50),
       DInt(70), DInt(95), DInt(120), DInt(150), DInt(185), DInt(240) >>

\* Variants of the selection: the last section that is large enough, and
\* the largest section not above the minimum.
next_Last(sections, minimum, default) ==
    LET ok == {i \in 1 .. Len(sections) : DLessEq(minimum, sections[i])}
    IN  IF ok = {} THEN default ELSE sections[Len(sections)]

next_Below(sections, minimum, default) ==
    LET ok == {i \in 1 .. Len(sections) : DLessEq(sections[i], minimum)}
    IN  IF ok = {} THEN sections[1]
        ELSE sections[CHOOSE i \in ok : \A k \in ok : k <= i]

\* next((s for s in sections if s >= minimum), default): the first
\* element that is large enough, the default when there is none.
next(sections, minimum, default) ==
    LET ok == {i \in 1 .. Len(sections) : DLessEq(minimum, sections[i])}
    IN  IF ok = {} THEN default
        ELSE sections[CHOOSE i \in ok : \A k \in ok : i <= k]

\* fuse_rating = round(current * 1.25 / 5) * 5, at least 5
fuse_rating(current) ==
    LET rating == round(DDiv(DMul(current, OneAndQuarter), DInt(5))) * 5
    IN  IF rating < 5 THEN 5 ELSE rating

\* calculate_cable_section
calculate_cable_section(current, length, voltage, max_drop_percent) ==
    LET minimum == min_section(current, length, voltage, max_drop_percent)
    IN  IF minimum.raises # "" THEN minimum
        ELSE LET cable_section == next(standard_sections, minimum.value, DInt(240))
                 actual_drop_volts ==
                     DDiv(LoopResistanceDrop(current, length), cable_section)
                 actual_drop_percent ==
                     DMul(DDiv(actual_drop_volts, DInt(voltage)), DInt(100))
             IN  Return([cable_section       |-> cable_section,
                         actual_drop_volts   |-> actual_drop_volts,
                         actual_drop_percent |-> actual_drop_percent,
                         fuse_rating         |-> fuse_rating(current),
                         current             |-> current])

\* float('inf'): the exponent above every finite double
float_inf == Double(FALSE, FromInt(1), 1024)

\* Variant of roi_years: the division made whatever the savings.
roi_years_Unguarded(total_cost, annual_savings) ==
    TrueDiv(total_cost, annual_savings)

\* total_cost / annual_savings if annual_savings > 0 else float('inf')
roi_years(total_cost, annual_savings) ==
    IF DLess(DZero, annual_savings) THEN TrueDiv(total_cost, annual_savings)
    ELSE Return(float_inf)

\* calculate_roi
calculate_roi(total_cost, daily_energy_kwh, electricity_price_per_kwh) ==
    LET daily_savings   == DMul(daily_energy_kwh, electricity_price_per_kwh)
        monthly_savings == DMul(daily_savings, DInt(30))
        annual_savings  == DMul(daily_savings, DInt(365))
        years           == roi_years(total_cost, annual_savings)
    IN  IF years.raises # "" THEN years
        ELSE Return([daily     |-> daily_savings,
                     monthly   |-> monthly_savings,
                     annual    |-> annual_savings,
                     roi_years |-> years.value])

---------------------------------------------------------------------------
(* The sizing functions called with the values the calculation page and    *)
(* the tests pass, and with zero and negative divisors                     *)

DailyEnergies ==
    { DZero, FourNinety, DInt(500), DInt(1000), DInt(1200), DInt(1500),
      DInt(3000) }

Voltages == {12, 24, 48, 0, -12}

Capacities == {100, 200}

Autonomies == {1, 2, 5}

Depths == {PointThree, PointFive, PointEight, DZero, MinusPointFive}

PanelPowers == {100, 300, 0, -300}

SunHours == {DInt(1), ToDouble(FALSE, TwoAndHalf), DInt(5), DZero, MinusFive}

ArrayPowers == {50, 300, 600, 1000}

RegulatorTypes == {"MPPT", "PWM", "mppt"}

Currents ==
    { DZero, DInt(1), ToDouble(FALSE, F64(5, 131072, 0, 0)), DInt(40),
      DInt(50), ToDouble(FALSE, F64(62, 131072, 0, 0)), DInt(200) }

Lengths == {DInt(1), DInt(10), DInt(50)}

SystemVoltages == {12, 24, 48}

DropPercents == {DInt(1), DInt(3), DInt(5)}

TotalCosts == {DZero, DInt(5000), Double(FALSE, F64(1, 121872, 0, 0), 13)}

DailyEnergiesKwh ==
    { DZero, ToDouble(FALSE, F64(1, 131072, 0, 0)), DInt(10), DInt(-2) }

ElectricityPrices ==
    { DZero, Double(FALSE, F64(1, 157286, 104857, 157288), -4),
      Double(FALSE, F64(1, 52428, 209715, 52428), -3), PointThree,
      Double(TRUE, F64(1, 52428, 209715, 52428), -3) }

\* A call about to be made, and the call once it has returned or raised
Calling(fn, args) ==
    [fn |-> fn, args |-> args, pc |-> "call", raises |-> "", value |-> "None"]

Called(fn, args, out) ==
    [fn |-> fn, args |-> args, pc |-> "done", raises |-> out.raises,
     value |-> out.value]

BatteryCalls ==
    { Calling("battery_needed",
              [daily_energy_wh     |-> e,
               battery_voltage     |-> v,
               battery_capacity_ah |-> c,
               autonomy_days       |-> a,
               discharge_depth     |-> d]) :
          e \in DailyEnergies, v \in Voltages, c \in Capacities,
          a \in Autonomies, d \in Depths }

PanelCalls ==
    { Calling("panel_needed",
              [daily_energy_wh |-> e, pv_power_w |-> p, sun_hours |-> h]) :
          e \in DailyEnergies, p \in PanelPowers, h \in SunHours }

RegulatorCalls ==
    { Calling("calculate_regulator",
              [pv_power |-> p, battery_voltage |-> v, regulator_type |-> t]) :
          p \in ArrayPowers, v \in Voltages, t \in RegulatorTypes }

CableCalls ==
    { Calling("calculate_cable_section",
              [current |-> i, length |-> l, voltage |-> v,
               max_drop_percent |-> m]) :
          i \in Currents, l \in Lengths, v \in SystemVoltages,
          m \in DropPercents }

RoiCalls ==
    { Calling("calculate_roi",
              [total_cost |-> c, daily_energy_kwh |-> e,
               electricity_price_per_kwh |-> p]) :
          c \in TotalCosts, e \in DailyEnergiesKwh, p \in ElectricityPrices }

SizingCalls ==
    BatteryCalls \cup PanelCalls \cup RegulatorCalls \cup CableCalls \cup RoiCalls

InitSizing ==
    /\ equipments = <<>>
    /\ lastOp = Call("__init__", "", NoEquipment, "ok")
    /\ HourlyIdle
    /\ sizing \in SizingCalls
    /\ threads = NoThreads
    /\ saved_configs = NoFile

CallBattery ==
    /\ sizing.pc = "call"
    /\ sizing.fn = "battery_needed"
    /\ LET a == sizing.args
       IN  sizing' = Called(sizing.fn, a,
                            battery_needed(a.daily_energy_wh, a.battery_voltage,
                                           a.battery_capacity_ah,
                                           a.autonomy_days, a.discharge_depth))
    /\ UNCHANGED <<registryVars, hourlyVars, threadVars, storageVars>>

CallPanel ==
    /\ sizing.pc = "call"
    /\ sizing.fn = "panel_needed"
    /\ LET a == sizing.args
       IN  sizing' = Called(sizing.fn, a,
                            panel_needed(a.daily_energy_wh, a.pv_power_w,
                                         a.sun_hours))
    /\ UNCHANGED <<registryVars, hourlyVars, threadVars, storageVars>>

CallRegulator ==
    /\ sizing.pc = "call"
    /\ sizing.fn = "calculate_regulator"
    /\ LET a == sizing.args
       IN  sizing' = Called(sizing.fn, a,
                            calculate_regulator(a.pv_power, a.battery_voltage,
                                                a.regulator_type))
    /\ UNCHANGED <<registryVars, hourlyVars, threadVars, storageVars>>

CallCable ==
    /\ sizing.pc = "call"
    /\ sizing.fn = "calculate_cable_section"
    /\ LET a == sizing.args
       IN  sizing' = Called(sizing.fn, a,
                            calculate_cable_section(a.current, a.length,
                                                    a.voltage,
                                                    a.max_drop_percent))
    /\ UNCHANGED <<registryVars, hourlyVars, threadVars, storageVars>>

CallRoi ==
    /\ sizing.pc = "call"
    /\ sizing.fn = "calculate_roi"
    /\ LET a == sizing.args
       IN  sizing' = Called(sizing.fn, a,
                            calculate_roi(a.total_cost, a.daily_energy_kwh,
                                          a.electricity_price_per_kwh))
    /\ UNCHANGED <<registryVars, hourlyVars, threadVars, storageVars>>

NextSizing ==
    CallBattery \/ CallPanel \/ CallRegulator \/ CallCable \/ CallRoi

SpecSizing == InitSizing /\ [][NextSizing]_vars

---------------------------------------------------------------------------
(* Properties of the sizing functions (specification SpecSizing)           *)

\* The call of fn has returned or raised.
Done(fn) == sizing.pc = "done" /\ sizing.fn = fn

\* d > 0
DPositive(d) == ~d.neg /\ d.sig # Zero

\* n is the ceiling of x / y (x >= 0, y > 0 doubles, the quotient taken
\* exactly): the smallest int with n * y >= x.
IsCeiling(n, x, y) ==
    /\ n >= 0
    /\ LessEq(Magnitude(x), ExactMul(n, Magnitude(y)))
    /\ n > 0 => Less(ExactMul(n - 1, Magnitude(y)), Magnitude(x))

Sign(n) == IF n > 0 THEN 1 ELSE IF n < 0 THEN -1 ELSE 0

DSign(d) == IF d.sig = Zero THEN 0 ELSE IF d.neg THEN -1 ELSE 1

DivisorSign ==
    LET a == sizing.args
    IN  IF sizing.fn = "battery_needed"
        THEN Sign(a.battery_voltage) * Sign(a.battery_capacity_ah)
                 * DSign(a.discharge_depth)
        ELSE IF sizing.fn = "panel_needed"
        THEN Sign(a.pv_power_w) * DSign(a.sun_hours)
        ELSE Sign(a.battery_voltage)

\* A call of one of the three sizing functions that divide has ended.
SizingDone ==
    Done("battery_needed") \/ Done("panel_needed") \/ Done("calculate_regulator")

\* C13: a call of battery_needed, panel_needed or calculate_regulator whose
\* divisor is exactly zero fails with an error (the division's
\* ZeroDivisionError) and returns no result.
C13_ZeroDivisorFails ==
    (SizingDone /\ DivisorSign = 0) =>
        sizing.raises = "ZeroDivisionError" /\ sizing.value = "None"

\* C13 witness: calculate_regulator with a battery voltage of 0 raised.
C13_Witness ==
    /\ Done("calculate_regulator")
    /\ sizing.args.battery_voltage = 0
    /\ sizing.raises = "ZeroDivisionError"

\* C14: a call of battery_needed, panel_needed or calculate_regulator whose
\* divisor is negative fails with an error instead of returning a count or
\* a current.
C14_NegativeDivisorFails ==
    (SizingDone /\ DivisorSign < 0) => sizing.raises # ""

\* C15: with the other arguments fixed (voltage and capacity positive, the
\* demand not negative), battery_needed does not return more for a larger
\* depth of discharge and does not return less for more autonomy days.
C15_BatteryMonotonic ==
    LET a == sizing.args
        again(days, depth) ==
            battery_needed(a.daily_energy_wh, a.battery_voltage,
                           a.battery_capacity_ah, days, depth).value
    IN  (/\ Done("battery_needed")
         /\ a.battery_voltage > 0
         /\ a.battery_capacity_ah > 0
         /\ DPositive(a.discharge_depth)) =>
            /\ \A depth \in Depths :
                   DLess(a.discharge_depth, depth) =>
                       again(a.autonomy_days, depth) <= sizing.value
            /\ \A days \in Autonomies :
                   days > a.autonomy_days =>
                       again(days, a.discharge_depth) >= sizing.value

\* C15 witness: battery_needed(1000, 12, 100, 2, 0.3) returned 6; at depth
\* 0.8 it returns fewer and for 5 days more.
C15_Witness ==
    /\ Done("battery_needed")
    /\ sizing.args = [daily_energy_wh |-> DInt(1000), battery_voltage |-> 12,
                      battery_capacity_ah |-> 100, autonomy_days |-> 2,
                      discharge_depth |-> PointThree]
    /\ sizing.value = 6
    /\ battery_needed(DInt(1000), 12, 100, 2, PointEight).value < 6
    /\ battery_needed(DInt(1000), 12, 100, 5, PointThree).value > 6

\* C16: with the daily energy (not negative) and the panel power
\* (positive) fixed, panel_needed does not return more for more sun hours:
\* for sun hours a < b the count at a is >= the count at b.
C16_PanelMonotonic ==
    LET a == sizing.args
    IN  (/\ Done("panel_needed")
         /\ a.pv_power_w > 0
         /\ DPositive(a.sun_hours)) =>
            \A more \in SunHours :
                DLess(a.sun_hours, more) =>
                    sizing.value >=
                        panel_needed(a.daily_energy_wh, a.pv_power_w, more).value

\* C16 witness: panel_needed(3000, 300, 1.0) returned 10; with 5 sun hours
\* it returns fewer.
C16_Witness ==
    /\ Done("panel_needed")
    /\ sizing.args = [daily_energy_wh |-> DInt(3000), pv_power_w |-> 300,
                      sun_hours |-> DInt(1)]
    /\ sizing.value = 10
    /\ panel_needed(DInt(3000), 300, DInt(5)).value < 10

\* The int a whole double stands for
Whole(d) == IF d.neg THEN -FloorMag(d) ELSE FloorMag(d)

\* The sections of the ladder
Ladder == { standard_sections[i] : i \in 1 .. Len(standard_sections) }

\* Section s is at least the minimum section of the call that was made,
\*     s >= 2 * 0.01724 * current * length / (voltage * max_drop_percent / 100),
\* in exact arithmetic: 1000 * 2s * voltage * percent >= 3448 * 2current * length
\* (sections and currents are whole numbers of halves).
Suffices(s) ==
    LET a == sizing.args
    IN  1000 * Whole(DMul(DInt(2), s)) * a.voltage * Whole(a.max_drop_percent)
            >= 3448 * Whole(DMul(DInt(2), a.current)) * Whole(a.length)

\* C17: calculate_cable_section returns the smallest section of the ladder
\* that is at least the minimum section; when the minimum section exceeds
\* 240 it returns 240 and does not fail; the section returned is always one
\* of the ladder.
C17_SmallestSufficientSection ==
    Done("calculate_cable_section") =>
        /\ sizing.raises = ""
        /\ sizing.value.cable_section \in Ladder
        /\ IF \E s \in Ladder : Suffices(s)
           THEN /\ Suffices(sizing.value.cable_section)
                /\ \A s \in Ladder :
                       Suffices(s) => DLessEq(sizing.value.cable_section, s)
           ELSE sizing.value.cable_section = DInt(240)

\* C17 witness: 200 A over 50 m at 12 V and 1 % needs more than 240 mm2
\* and gets 240.
C17_Witness ==
    /\ Done("calculate_cable_section")
    /\ sizing.args = [current |-> DInt(200), length |-> DInt(50),
                      voltage |-> 12, max_drop_percent |-> DInt(1)]
    /\ ~Suffices(DInt(240))
    /\ sizing.raises = ""
    /\ sizing.value.cable_section = DInt(240)

C19_FuseCoversCurrent ==
    Done("calculate_cable_section") =>
        /\ sizing.value.fuse_rating >= 5
        /\ DLessEq(sizing.args.current, DInt(sizing.value.fuse_rating))

\* C20: the fuse rating is 1.25 * current rounded to the nearest multiple
\* of 5, an exact tie rounded up, and then raised to 5 A when lower: with
\* the current a whole number c of half amperes, 1.25 * current / 5 = c / 8
\* and the rating is 5 * floor(c / 8 + 1/2); 50 A gives 65 A, 40 A gives 50 A.
C20_FuseRoundsHalfUp ==
    Done("calculate_cable_section") =>
        LET c      == Whole(DMul(DInt(2), sizing.args.current))
            rating == 5 * ((c + 4) \div 8)
        IN  sizing.value.fuse_rating = IF rating < 5 THEN 5 ELSE rating

\* C21: with the other arguments fixed and positive, the section
\* calculate_cable_section chooses does not shrink when the cable gets
\* longer, does not grow when the system voltage rises, and does not shrink
\* when the allowed drop is made smaller.
C21_SectionMonotonic ==
    LET a == sizing.args
        section(length, voltage, percent) ==
            calculate_cable_section(a.current, length, voltage,
                                    percent).value.cable_section
    IN  (Done("calculate_cable_section") /\ DPositive(a.current)) =>
            /\ \A longer \in Lengths :
                   DLess(a.length, longer) =>
                       DLessEq(sizing.value.cable_section,
                               section(longer, a.voltage, a.max_drop_percent))
            /\ \A higher \in SystemVoltages :
                   higher > a.voltage =>
                       DLessEq(section(a.length, higher, a.max_drop_percent),
                               sizing.value.cable_section)
            /\ \A tighter \in DropPercents :
                   DLess(tighter, a.max_drop_percent) =>
                       DLessEq(sizing.value.cable_section,
                               section(a.length, a.voltage, tighter))

\* C21 witness: 50 A over 10 m at 24 V and 3 % gets 25 mm2; 50 m needs
\* more, 48 V needs less and 1 % needs more.
C21_Witness ==
    /\ Done("calculate_cable_section")
    /\ sizing.args = [current |-> DInt(50), length |-> DInt(10),
                      voltage |-> 24, max_drop_percent |-> DInt(3)]
    /\ sizing.value.cable_section = DInt(25)
    /\ DLess(DInt(25), calculate_cable_section(DInt(50), DInt(50), 24,
                                               DInt(3)).value.cable_section)
    /\ DLess(calculate_cable_section(DInt(50), DInt(10), 48,
                                     DInt(3)).value.cable_section, DInt(25))
    /\ DLess(DInt(25), calculate_cable_section(DInt(50), DInt(10), 24,
                                               DInt(1)).value.cable_section)

\* q is the double nearest to x / y for ints x, y > 0 with x >= y: the
\* exact y * q differs from x by at most y times half a unit in the last
\* place of q.
IsQuotient(q, x, y) ==
    /\ DPositive(q)
    /\ q.exp >= 0
    /\ LessEq(AbsDiff(ExactMul(y, Magnitude(q)), FromInt(x)),
              ExactMul(y, Bit(53 - q.exp)))

\* r is the double nearest to 1.25 * n: the exact 4 * r differs from the
\* exact 5 * n by at most two units in the last place of r.
IsWithMargin(r, n) ==
    /\ DPositive(r)
    /\ r.exp >= 0
    /\ LessEq(AbsDiff(ExactMul(4, Magnitude(r)), ExactMul(5, Magnitude(n))),
              Bit(51 - r.exp))

\* C22: for a positive battery voltage calculate_regulator returns
\* nominal_current = pv_power / battery_voltage, recommended_current =
\* 1.25 * nominal_current, the efficiency 0.98 for the type MPPT and 0.85
\* for the type PWM, and the type it was given.
C22_RegulatorValues ==
    LET a == sizing.args
        v == sizing.value
    IN  (Done("calculate_regulator") /\ a.battery_voltage > 0) =>
            /\ sizing.raises = ""
            /\ IsQuotient(v.nominal_current, a.pv_power, a.battery_voltage)
            /\ a.pv_power % a.battery_voltage = 0 =>
                   v.nominal_current = DInt(a.pv_power \div a.battery_voltage)
            /\ IsWithMargin(v.recommended_current, v.nominal_current)
            /\ a.regulator_type = "MPPT" => v.efficiency = MpptEfficiency
            /\ a.regulator_type = "PWM" => v.efficiency = PwmEfficiency
            /\ v.type = a.regulator_type

\* C22 witness: calculate_regulator(300, 12, "MPPT") returned 25 A nominal,
\* 31.25 A recommended and the efficiency 0.98.
C22_Witness ==
    /\ Done("calculate_regulator")
    /\ sizing.args = [pv_power |-> 300, battery_voltage |-> 12,
                      regulator_type |-> "MPPT"]
    /\ sizing.value.nominal_current = DInt(25)
    /\ sizing.value.recommended_current = ToDouble(FALSE, F64(31, 65536, 0, 0))
    /\ sizing.value.efficiency = MpptEfficiency
    /\ sizing.value.type = "MPPT"


\* C30: calculate_regulator does not validate regulator_type: for every
\* type other than the exact string "MPPT", a lowercase "mppt" included,
\* it raises nothing, returns the efficiency 0.85 and the type it was
\* given.
C30_TypeNotValidated ==
    (/\ Done("calculate_regulator")
     /\ sizing.args.battery_voltage > 0
     /\ sizing.args.regulator_type # "MPPT") =>
        /\ sizing.raises = ""
        /\ sizing.value.efficiency = PwmEfficiency
        /\ sizing.value.type = sizing.args.regulator_type

\* C30 witness: calculate_regulator(600, 24, "mppt") returned the
\* efficiency 0.85 and the type "mppt".
C30_Witness ==
    /\ Done("calculate_regulator")
    /\ sizing.args = [pv_power |-> 600, battery_voltage |-> 24,
                      regulator_type |-> "mppt"]
    /\ sizing.raises = ""
    /\ sizing.value.efficiency = PwmEfficiency
    /\ sizing.value.type = "mppt"


\* C23: calculate_roi never fails: with annual = daily_energy_kwh *
\* electricity_price_per_kwh * 365, roi_years is total_cost / annual when
\* annual > 0 and the infinite value whenever annual <= 0; monthly is
\* daily * 30 and annual is daily * 365 in both cases.
C23_RoiNeverFails ==
    LET a == sizing.args
        v == sizing.value
    IN  Done("calculate_roi") =>
            /\ sizing.raises = ""
            /\ v.daily = DMul(a.daily_energy_kwh, a.electricity_price_per_kwh)
            /\ v.monthly = DMul(v.daily, DInt(30))
            /\ v.annual = DMul(v.daily, DInt(365))
            /\ DPositive(v.annual) =>
                   /\ v.roi_years = DDiv(a.total_cost, v.annual)
                   /\ v.roi_years # float_inf
            /\ ~DPositive(v.annual) => v.roi_years = float_inf
            /\ (a.daily_energy_kwh = DZero \/ a.electricity_price_per_kwh = DZero)
                   => (v.annual = DZero /\ v.roi_years = float_inf)

\* C23 witness: calculate_roi(5000, 0, 0.15) returned zero savings and the
\* infinite value.
C23_Witness ==
    /\ Done("calculate_roi")
    /\ sizing.args.total_cost = DInt(5000)
    /\ sizing.args.daily_energy_kwh = DZero
    /\ sizing.args.electricity_price_per_kwh # DZero
    /\ sizing.raises = ""
    /\ sizing.value.daily = DZero
    /\ sizing.value.monthly = DZero
    /\ sizing.value.annual = DZero
    /\ sizing.value.roi_years = float_inf

\* calculate_roi(5000, 10, 0.15) returned 1.5 a day, 45 a month, 547.5 a
\* year and 5000 / 547.5 = 9.132420091324201 years.
C23_PaidBack ==
    /\ Done("calculate_roi")
    /\ sizing.args.total_cost = DInt(5000)
    /\ sizing.args.daily_energy_kwh = DInt(10)
    /\ sizing.value.daily = ToDouble(FALSE, F64(1, 131072, 0, 0))
    /\ sizing.value.monthly = DInt(45)
    /\ sizing.value.annual = Double(FALSE, F64(1, 18176, 0, 0), 9)
    /\ sizing.value.roi_years = Double(FALSE, F64(1, 37107, 37107, 37108), 3)


---------------------------------------------------------------------------
(* More properties of the hourly distribution (specification SpecHourly)   *)

\* The time allotted to hour h over all the passes: one hour for each
\* whole hour of use that falls on h, and the remaining part of an hour
\* when it falls on h.
Allotted(h) ==
    LET whole == Cardinality({k \in 0 .. self.time.w - 1 :
                                  (self.start_hour + k) % 24 = h})
        part  == IF (self.start_hour + self.time.w) % 24 = h
                 THEN F64(0, self.time.a, self.time.b, self.time.c) ELSE Zero
    IN  ExactAdd(FromInt(whole), part)

MoreThanADay == Returned /\ Less(FromInt(24), self.time)

\* C24 as claimed: for usage_hours > 24 each slot holds power times the
\* total time allotted to it over all passes, at least one slot exceeds
\* power, and the 24 slots sum to power * usage_hours (read as the exact
\* product or as the float the code computes for it).
C24_PassesExact ==
    MoreThanADay =>
        /\ \A h \in Hours :
               \/ hourly[h] = ExactMul(self.power, Allotted(h))
               \/ hourly[h] = Round53(ExactMul(self.power, Allotted(h)))
        /\ \E h \in Hours : Less(FromInt(self.power), hourly[h])
        /\ SlotSum = Energy \/ SlotSum = daily_energy_consumption(self)

\* C24 amended: for usage_hours > 24 the contributions of every pass are
\* added to the slot: each slot holds power times the total time allotted
\* to it up to floating-point rounding (relative error at most 2^-52), at
\* least one slot exceeds power, and the 24 slots sum to power *
\* usage_hours up to the same rounding, exactly when usage_hours is a
\* whole number of quarter hours.
C24_PassesAddUp ==
    MoreThanADay =>
        /\ \A h \in Hours :
               /\ WithinRounding(hourly[h], ExactMul(self.power, Allotted(h)))
               /\ QuarterHours(self.time) =>
                      hourly[h] = ExactMul(self.power, Allotted(h))
        /\ \E h \in Hours : Less(FromInt(self.power), hourly[h])
        /\ WithinRounding(SlotSum, Energy)
        /\ QuarterHours(self.time) => SlotSum = Energy

\* C24 witness: 100 W for 25.3 h from 5:00: hour 5 holds both passes
\* (200 W), hour 6 the first pass and the part of an hour, and the sum
\* differs from power * usage_hours by the rounding.
C24_Witness ==
    /\ MoreThanADay
    /\ self.power = 100
    /\ self.time = TwentyFivePointThree
    /\ self.start_hour = 5
    /\ hourly[5] = FromInt(200)
    /\ Less(FromInt(129), hourly[6]) /\ Less(hourly[6], FromInt(131))
    /\ \A h \in Hours \ {5, 6} : hourly[h] = FromInt(100)
    /\ SlotSum # Energy
    /\ SlotSum # daily_energy_consumption(self)
    /\ WithinRounding(SlotSum, Energy)


---------------------------------------------------------------------------
(* get_hourly_consumption with usage hours of any size: remaining_time is  *)
(* a double of any magnitude (the page's time input has no upper limit)    *)

MaxIterations == 4

\* remaining_time -= 1 on a double d >= 1. Below 2^53 the difference is a
\* double. From 2^53 on the doubles are 2 and more apart: d - 1 lies half
\* way between two of them (rounded to the one with the even significand)
\* or nearer to d.
DSubOne(d) ==
    IF d.exp <= 52
    THEN LET x == ExactSub(d.sig, Bit(d.exp))
         IN  IF x = Zero THEN DZero
             ELSE LET n == Normal(x, d.exp) IN Double(FALSE, n.sig, n.exp)
    ELSE IF d.exp = 53 /\ d.sig = FromInt(1)
    THEN Double(FALSE, ExactSub(FromInt(2), Bit(52)), 52)
    ELSE IF d.exp = 53 /\ (d.sig.c \div 4) % 2 = 1
    THEN Double(FALSE, ExactSub(d.sig, Bit(52)), 53)
    ELSE d

\* One iteration of the while loop, remaining_time a double of any size
LongWhileBody(power, st) ==
    IF DLessEq(DInt(1), st.remaining_time)
    THEN [hourly         |-> [st.hourly EXCEPT ![st.current_hour % 24] =
                                  FAdd(@, FromInt(power))],
          remaining_time |-> DSubOne(st.remaining_time),
          current_hour   |-> st.current_hour + 1]
    ELSE [hourly         |-> [st.hourly EXCEPT ![st.current_hour % 24] =
                                  FAdd(@, FMul(power, Magnitude(st.remaining_time)))],
          remaining_time |-> DZero,
          current_hour   |-> st.current_hour + 1]

\* 1.5, 2, 2^53 - 1, 2^53, 2^53 + 2, 2^53 + 4, 1e16, 2^54 and 2^60 hours
LongTimes ==
    { ToDouble(FALSE, F64(1, 131072, 0, 0)), DInt(2),
      Double(FALSE, ExactSub(FromInt(2), Bit(52)), 52),
      Double(FALSE, FromInt(1), 53),
      Double(FALSE, F64(1, 0, 0, 4), 53),
      Double(FALSE, F64(1, 0, 0, 8), 53),
      Double(FALSE, F64(1, 28894, 79840, 131072), 53),
      Double(FALSE, FromInt(1), 54),
      Double(FALSE, FromInt(1), 60) }

InitLongUse ==
    /\ equipments = <<>>
    /\ lastOp = Call("__init__", "", NoEquipment, "ok")
    /\ self \in { EquipmentWithEnd("load", p, t, s, 0) :
                      p \in HourlyPowers, t \in LongTimes, s \in Hours }
    /\ hourly = Zeros
    /\ remaining_time = DZero
    /\ current_hour = 0
    /\ pc = "call"
    /\ sizing = NoCall
    /\ threads = NoThreads
    /\ saved_configs = NoFile

\* hourly = [0.0] * 24; if self.time > 0: set up the locals
EnterLong ==
    /\ pc = "call"
    /\ hourly' = Zeros
    /\ IF DLess(DZero, self.time)
       THEN /\ remaining_time' = self.time
            /\ current_hour' = self.start_hour
            /\ pc' = "while"
       ELSE /\ UNCHANGED <<remaining_time, current_hour>>
            /\ pc' = "return"
    /\ UNCHANGED <<self, registryVars, sizingVars, threadVars, storageVars>>

\* while remaining_time > 0: one iteration (the first MaxIterations of them)
StepLong ==
    /\ pc = "while"
    /\ DLess(DZero, remaining_time)
    /\ current_hour - self.start_hour < MaxIterations
    /\ LET st == LongWhileBody(self.power,
                               [hourly         |-> hourly,
                                remaining_time |-> remaining_time,
                                current_hour   |-> current_hour])
       IN  /\ hourly' = st.hourly
           /\ remaining_time' = st.remaining_time
           /\ current_hour' = st.current_hour
    /\ UNCHANGED <<pc, self, registryVars, sizingVars, threadVars, storageVars>>

\* the loop condition fails: return hourly
ExitLong ==
    /\ pc = "while"
    /\ ~DLess(DZero, remaining_time)
    /\ pc' = "return"
    /\ UNCHANGED <<hourly, remaining_time, current_hour, self, registryVars,
                   sizingVars, threadVars, storageVars>>

NextLongUse == EnterLong \/ StepLong \/ ExitLong

SpecLongUse == InitLongUse /\ [][NextLongUse]_vars

\* C25: the remaining-time counter of the hourly distribution loop
\* decreases on every iteration, whatever the finite usage_hours (so that
\* the loop terminates).
C25_CounterDecreases ==
    [][StepLong => DLess(remaining_time', remaining_time)]_vars


\* For the usage hours of HourlyTimes (all below 2^53) the counter is
\* usage_hours less the iterations made while that is positive, and zero
\* after ceiling(usage_hours) iterations; with zero usage hours the loop
\* body never runs and the 24 slots are zero.
CountsDown ==
    LET n == current_hour - self.start_hour
    IN  /\ pc = "while" =>
               IF Less(FromInt(n), self.time)
               THEN ExactAdd(remaining_time, FromInt(n)) = self.time
               ELSE /\ remaining_time = Zero
                    /\ n = self.time.w + (IF self.time = FromInt(self.time.w) THEN 0 ELSE 1)
        /\ (pc = "return" /\ ~Positive(self.time)) =>
               (hourly = Zeros /\ current_hour = 0)


\* e is x mod 24 truncated toward zero, for a float 0 <= x < 72
TruncatedMod24(e, x) ==
    \E k \in 0 .. 2 : /\ LessEq(FromInt(24 * k + e), x)
                      /\ Less(x, FromInt(24 * k + e + 1))

\* C27: when end_hour is not supplied it is (start_hour + usage_hours)
\* mod 24 truncated toward zero (the sum taken as the float the code
\* computes) and lies in 0..23; when supplied it is stored as given; and
\* the hourly distribution returned is the one of the same appliance with
\* any other end_hour.
C27_EndHour ==
    LET a == lastOp.arg
    IN  /\ a.end_hour = <<>> =>
               /\ self.end_hour \in Hours
               /\ TruncatedMod24(self.end_hour, FAdd(FromInt(a.start_hour), a.time))
               /\ QuarterHours(a.time) =>
                      self.end_hour = (a.start_hour + a.time.w) % 24
        /\ a.end_hour # <<>> => self.end_hour = a.end_hour[1]
        /\ pc = "return" =>
               \A e \in Hours :
                   hourly = get_hourly_consumption(
                                EquipmentWithEnd(self.name, self.power, self.time,
                                                 self.start_hour, e))

\* C27 witness: Equipment("load", 100, 3.0, start_hour=18, end_hour=22)
\* keeps the end hour 22 (not 21) and loads the hours 18, 19 and 20.
C27_Witness ==
    /\ pc = "return"
    /\ lastOp.arg = [power |-> 100, time |-> FromInt(3), start_hour |-> 18,
                     end_hour |-> <<22>>]
    /\ self.end_hour = 22
    /\ {h \in Hours : Positive(hourly[h])} = {18, 19, 20}

\* Without end_hour, Equipment("load", 100, 2.5, start_hour=23) gets the
\* end hour int(25.5 % 24) = 1.
C27_DefaultEnd ==
    /\ pc = "return"
    /\ lastOp.arg = [power |-> 100, time |-> TwoAndHalf, start_hour |-> 23,
                     end_hour |-> <<>>]
    /\ self.end_hour = 1

\* In the registry every entry was created by add_equipment or
\* edit_equipment without end_hour (under Spec).
EntriesHaveDefaultEnd ==
    \A i \in 1 .. Len(equipments) :
        /\ equipments[i].end_hour \in Hours
        /\ equipments[i].end_hour =
               (equipments[i].start_hour + equipments[i].time.w) % 24


---------------------------------------------------------------------------
(* More properties of the registry (specification Spec)                    *)

\* The positions of list holding this name, and the lowest of them
Positions(list, name) == {i \in 1 .. Len(list) : list[i].name = name}

Lowest(list, name) ==
    CHOOSE k \in Positions(list, name) :
        \A j \in Positions(list, name) : k <= j

\* C28: in a registry where several entries share a name,
\* get_equipment_by_name returns the entry at the lowest position with that
\* name, and edit_equipment and delete_equipment of a target with that name
\* replace and delete the entry at that position, leaving the later entries
\* with that name (and all others) as they were.
C28_FirstMatch ==
    [][\A name \in Names :
           Cardinality(Positions(equipments, name)) >= 2 =>
               LET k == Lowest(equipments, name)
               IN  /\ get_equipment_by_name(name) = equipments[k]
                   /\ (lastOp'.op = "edit_equipment" /\ lastOp'.name = name) =>
                          /\ lastOp'.result = "ok"
                          /\ equipments' = [equipments EXCEPT ![k] = lastOp'.arg]
                   /\ (lastOp'.op = "delete_equipment" /\ lastOp'.name = name) =>
                          /\ lastOp'.result = "ok"
                          /\ equipments' = Without(equipments, k)]_vars

\* C28 witness: a remove of "lamp" succeeded and an entry named "lamp" is
\* still there: the registry held the name twice and one entry was left.
C28_Witness ==
    /\ lastOp.op = "delete_equipment"
    /\ lastOp.result = "ok"
    /\ lastOp.name = "lamp"
    /\ Len(equipments) = 1
    /\ equipments[1].name = "lamp"


---------------------------------------------------------------------------
(* The registry called from two threads: add_equipment runs its duplicate  *)
(* check and its append as separate steps, list.remove and list.clear are  *)
(* single steps                                                            *)

\* The load each thread passes to add_equipment (the entries of the two
\* threads differ in power)
ThreadLoad(t) ==
    IF t = 1 THEN [power |-> 10, time |-> FromInt(2), start_hour |-> 23]
    ELSE [power |-> 100, time |-> Half, start_hour |-> 0]

ThreadEquipment(t, name) ==
    Equipment(name, ThreadLoad(t).power, ThreadLoad(t).time,
              ThreadLoad(t).start_hour)

\* Thread t has changed the list and is now as rec: the threads between
\* their check and their append have been disturbed.
Mutated(t, rec) ==
    [u \in Threads |->
        IF u = t THEN rec
        ELSE IF threads[u].pc = "append"
        THEN [threads[u] EXCEPT !.disturbed = TRUE]
        ELSE threads[u]]

InitThreads ==
    /\ equipments = <<>>
    /\ lastOp = Call("__init__", "", NoEquipment, "ok")
    /\ HourlyIdle
    /\ sizing = NoCall
    /\ threads = NoThreads
    /\ saved_configs = NoFile

\* add_equipment up to the check: new_equipment is built and looked up
\* in the list; the call raises when it is found.
AddCheck(t, name) ==
    /\ threads[t].pc = "idle"
    /\ IF Contains(equipments, ThreadEquipment(t, name))
       THEN threads' = [threads EXCEPT ![t] =
                           [Idle EXCEPT !.pc = "done", !.op = "add_equipment",
                                        !.name = name, !.result = "ValueError"]]
       ELSE LET peers == {u \in Threads \ {t} : /\ threads[u].pc = "append"
                                                /\ threads[u].name = name}
            IN  threads' =
                    [u \in Threads |->
                        IF u = t
                        THEN [Idle EXCEPT !.pc = "append", !.op = "add_equipment",
                                          !.name = name, !.overlap = peers # {}]
                        ELSE IF u \in peers
                        THEN [threads[u] EXCEPT !.overlap = TRUE]
                        ELSE threads[u]]
    /\ UNCHANGED <<registryVars, hourlyVars, sizingVars, storageVars>>

\* Variant of AddAppend: the name is looked up again before the append.
AddAppend_Rechecked(t) ==
    /\ threads[t].pc = "append"
    /\ Len(equipments) < MaxLen
    /\ IF Contains(equipments, ThreadEquipment(t, threads[t].name))
       THEN /\ equipments' = equipments
            /\ threads' = [threads EXCEPT ![t].pc = "done",
                                          ![t].result = "ValueError"]
       ELSE /\ equipments' = Append(equipments,
                                    ThreadEquipment(t, threads[t].name))
            /\ threads' = Mutated(t, [threads[t] EXCEPT !.pc = "done",
                                                        !.result = "ok"])
    /\ UNCHANGED <<lastOp, hourlyVars, sizingVars, storageVars>>

\* add_equipment after the check: self._equipments.append(new_equipment)
AddAppend(t) ==
    /\ threads[t].pc = "append"
    /\ Len(equipments) < MaxLen
    /\ equipments' = Append(equipments, ThreadEquipment(t, threads[t].name))
    /\ threads' = Mutated(t, [threads[t] EXCEPT !.pc = "done", !.result = "ok"])
    /\ UNCHANGED <<lastOp, hourlyVars, sizingVars, storageVars>>

\* delete_equipment: self._equipments.remove(equipment)
Remove(t, name) ==
    /\ threads[t].pc = "idle"
    /\ LET done == [Idle EXCEPT !.pc = "done", !.op = "delete_equipment",
                                !.name = name]
       IN  IF Contains(equipments, ThreadEquipment(t, name))
           THEN /\ equipments' = RemoveFirst(equipments, ThreadEquipment(t, name))
                /\ threads' = Mutated(t, [done EXCEPT !.result = "ok"])
           ELSE /\ equipments' = equipments
                /\ threads' = [threads EXCEPT ![t] =
                                   [done EXCEPT !.result = "ValueError"]]
    /\ UNCHANGED <<lastOp, hourlyVars, sizingVars, storageVars>>

\* delete_all_equipments: self._equipments.clear()
Clear(t) ==
    /\ threads[t].pc = "idle"
    /\ equipments' = <<>>
    /\ threads' = Mutated(t, [Idle EXCEPT !.pc = "done",
                                          !.op = "delete_all_equipments",
                                          !.result = "ok"])
    /\ UNCHANGED <<lastOp, hourlyVars, sizingVars, storageVars>>

\* The call of thread t has returned or raised; the thread may call again.
Finish(t) ==
    /\ threads[t].pc = "done"
    /\ threads' = [threads EXCEPT ![t] = Idle]
    /\ UNCHANGED <<registryVars, hourlyVars, sizingVars, storageVars>>

NextThreads ==
    \E t \in Threads :
        \/ \E name \in Names : AddCheck(t, name)
        \/ AddAppend(t)
        \/ \E name \in Names : Remove(t, name)
        \/ Clear(t)
        \/ Finish(t)

SpecThreads == InitThreads /\ [][NextThreads]_vars

\* No two entries of list have equal names.
Unique(list) ==
    \A i, j \in 1 .. Len(list) : i # j => list[i].name # list[j].name

\* Two add calls for one name have both made their check before either
\* appended, and both have finished.
BothChecked(t, u) ==
    /\ t # u
    /\ threads[t].pc = "done" /\ threads[u].pc = "done"
    /\ threads[t].op = "add_equipment" /\ threads[u].op = "add_equipment"
    /\ threads[t].name = threads[u].name
    /\ threads[t].overlap /\ threads[u].overlap

\* C26: two add_equipment calls for one new name that both make the
\* duplicate check before either appends both succeed and leave two entries
\* of that name; and names that were unique stop being unique only by the
\* append of an add whose check and append another call's change of the
\* list came between: add calls run one at a time, remove and clear calls
\* never produce two entries of one name.
C26_CheckThenAct ==
    [][/\ (Unique(equipments) /\ ~Unique(equipments')) =>
              \E t \in Threads : /\ threads[t].pc = "append"
                                 /\ threads[t].disturbed
                                 /\ threads'[t].pc = "done"
       /\ \A t, u \in Threads :
              BothChecked(t, u)' =>
                  /\ threads'[t].result = "ok" /\ threads'[u].result = "ok"
                  /\ Cardinality(Positions(equipments', threads'[t].name)) = 2]_vars

\* C26 witness: both threads added "tv", both checks came before both
\* appends, both calls succeeded and the registry holds "tv" twice.
C26_Witness ==
    /\ BothChecked(1, 2)
    /\ threads[1].name = "tv"
    /\ threads[1].result = "ok" /\ threads[2].result = "ok"
    /\ Len(equipments) = 2
    /\ equipments[1].name = "tv" /\ equipments[2].name = "tv"
    /\ equipments[1].power # equipments[2].power


---------------------------------------------------------------------------
(* src/utils/storage.py and the Load button of pages/1_Equipments.py       *)

\* A float in a JSON file is a decimal text int.digits with `places`
\* digits after the point. json.load reads it as the nearest double (ties
\* to even): the fraction digits / 10^places is divided out to 54 binary
\* places, what is left over keeping the text off an exact tie. Texts
\* below 1 must be exact in 54 binary places (as 0.5 and 0.25 are).
float_parse(text) ==
    LET m  == 10 ^ text.places
        a  == (text.digits * Limb) \div m
        r1 == (text.digits * Limb) % m
        b  == (r1 * Limb) \div m
        r2 == (r1 * Limb) % m
        c  == (r2 * Limb) \div m
        r3 == (r2 * Limb) % m
    IN  Round53(F64(text.int, a, b, IF r3 # 0 /\ c % 2 = 0 THEN c + 1 ELSE c))

\* The texts with k digits after the point next to x
Texts(x, k) ==
    LET f == ExactMul(10 ^ k, F64(0, x.a, x.b, x.c)).w
    IN  {[int |-> x.w, digits |-> f, places |-> k]} \cup
        (IF f + 1 < 10 ^ k THEN {[int |-> x.w, digits |-> f + 1, places |-> k]}
         ELSE {[int |-> x.w + 1, digits |-> 0, places |-> k]})

\* float.__repr__, as json.dump writes a float: the shortest decimal text
\* that reads back as x (for x that one to three decimals give back)
float_repr(x) ==
    LET reads(k) == {t \in Texts(x, k) : float_parse(t) = x}
        places   == CHOOSE k \in 1 .. 3 :
                        /\ reads(k) # {}
                        /\ \A j \in 1 .. k - 1 : reads(j) = {}
    IN  CHOOSE t \in reads(places) : TRUE


\* save_configuration: the "equipments" list written to the file
save_configuration(factory) ==
    [i \in 1 .. Len(factory) |->
        [name       |-> factory[i].name,
         power      |-> factory[i].power,
         time       |-> float_repr(factory[i].time),
         start_hour |-> factory[i].start_hour]]

\* load_configuration: config["equipments"] as json.load reads it
load_configuration(file) ==
    [i \in 1 .. Len(file.equipments) |->
        [file.equipments[i] EXCEPT !.time = float_parse(@)]]

\* dict.get(key, default)
Get(dict, key, default) ==
    IF key \in DOMAIN dict THEN dict[key] ELSE default

\* The loop of the Load button from record i on: add_equipment of each
\* record in order; a ValueError ends the loop and the handler.
RECURSIVE LoadEach(_, _, _)
LoadEach(list, equipments_data, i) ==
    IF i > Len(equipments_data) THEN [equipments |-> list, raises |-> ""]
    ELSE LET eq_data == equipments_data[i]
             new_equipment == Equipment(eq_data.name, eq_data.power, eq_data.time,
                                        Get(eq_data, "start_hour", 0))
         IN  IF Contains(list, new_equipment)
             THEN [equipments |-> list, raises |-> "ValueError"]
             ELSE LoadEach(Append(list, new_equipment), equipments_data, i + 1)

StorageNames == {"tv", "lamp"}

StorageLoads ==
    { [power |-> 100, time |-> FourPointNine, start_hour |-> 23],
      [power |-> 10,  time |-> Half,          start_hour |-> 0] }

InitStorage ==
    /\ equipments = <<>>
    /\ lastOp = Call("__init__", "", NoEquipment, "ok")
    /\ HourlyIdle
    /\ sizing = NoCall
    /\ threads = NoThreads
    /\ saved_configs = NoFile

StorageAdd ==
    /\ \E name \in StorageNames, l \in StorageLoads :
           add_equipment(name, l.power, l.time, l.start_hour)
    /\ UNCHANGED <<hourlyVars, sizingVars, threadVars, storageVars>>

StorageEdit ==
    /\ \E old_name \in StorageNames, new_name \in StorageNames, l \in StorageLoads :
           edit_equipment(Equipment(old_name, l.power, l.time, l.start_hour),
                          new_name, l.power, l.time, l.start_hour)
    /\ UNCHANGED <<hourlyVars, sizingVars, threadVars, storageVars>>

\* The Save button: save_configuration(config_name, factory)
Save ==
    /\ saved_configs' = [exists     |-> TRUE,
                         equipments |-> save_configuration(equipments)]
    /\ lastOp' = Call("save_configuration", "", NoEquipment, "ok")
    /\ UNCHANGED <<equipments, hourlyVars, sizingVars, threadVars>>

\* The Load button: load_configuration, delete_all_equipments, then
\* add_equipment of every record
Load ==
    /\ saved_configs.exists
    /\ LET out == LoadEach(<<>>, load_configuration(saved_configs), 1)
       IN  /\ equipments' = out.equipments
           /\ lastOp' = Call("load_configuration", "", NoEquipment,
                             IF out.raises = "" THEN "ok" ELSE out.raises)
    /\ UNCHANGED <<hourlyVars, sizingVars, threadVars, storageVars>>

NextStorage == StorageAdd \/ StorageEdit \/ Save \/ Load

SpecStorage == InitStorage /\ [][NextStorage]_vars

\* The ordered (name, power, time, start_hour) of a registry
Records(list) ==
    [i \in 1 .. Len(list) |->
        <<list[i].name, list[i].power, list[i].time, list[i].start_hour>>]

\* The file holds what save_configuration writes for the registry as it
\* is, and the Load button is pressed.
LoadsBack ==
    /\ saved_configs.exists
    /\ saved_configs.equipments = save_configuration(equipments)
    /\ lastOp'.op = "load_configuration"

\* C29: loading a configuration saved from the registry as it is leaves
\* the registry with the same ordered (name, power, time, start_hour) as
\* before, and the load does not stop with an error.
C29_RoundTrip ==
    [][LoadsBack => /\ lastOp'.result = "ok"
                    /\ Records(equipments') = Records(equipments)]_vars

\* The round trip holds from every registry with unique names.
RoundTripOfUniqueNames ==
    [][(LoadsBack /\ Unique(equipments))
         => /\ lastOp'.result = "ok"
            /\ equipments' = equipments]_vars

\* A load stopped with ValueError and left one entry of the two saved.
LoadStopped ==
    /\ lastOp.op = "load_configuration"
    /\ lastOp.result = "ValueError"
    /\ Len(saved_configs.equipments) = 2
    /\ Len(equipments) = 1

=============================================================================
